---- MODULE Spec2Model ----
(***************************************************************************)
(* tsc-simple: a facade over the TypeScript compiler that compiles or      *)
(* parses in-memory strings (src/src/tsc-simple.ts), and the virtual       *)
(* system overlay createSimpleSys with the host createCompilerHost builds  *)
(* over it (src/src/simple-sys.ts).                                        *)
(*                                                                         *)
(* Strings are TLA+ strings; JavaScript Maps are sequences of              *)
(* [key, value] records in insertion order; a syntax tree (ts.SourceFile)  *)
(* is a record [fileName, text, id] whose id is the object's identity.     *)
(* The external engine (ts.createProgram and friends) and the real system  *)
(* (ts.sys) are modelled at the interface the repository calls them.       *)
(***************************************************************************)
EXTENDS Integers, Sequences, FiniteSets, TLC

VARIABLES
    compiler,              \* the createCompiler closure: options, fileNames, or the error thrown
    permanentSourceFiles,  \* tsc-simple.ts:68, Map<fileName, SourceFile>
    nextId,                \* next fresh object identity for a syntax tree
    results,               \* the calls so far, in order: the result returned, or the error
    sysWrites,             \* calls received by the real system's writeFile
    sysMkdirs,             \* calls received by the real system's createDirectory
    thrown,                \* message of the exception the last operation threw, "" if none
    overlay,               \* the system createSimpleSys returned, or the error it threw
    overlayCaptured,       \* the (name, text) pairs the overlay's onWrite sink received
    formatted,             \* the last formatDiagnostic call: the result asked, d, the string
    overlayAnswer,         \* the last readFile or fileExists call on the overlay, and its answer
    adapter                \* the host createCompilerHost builds over the overlay: its
                           \* directory cache and what its last call did

vars == <<compiler, permanentSourceFiles, nextId, results, sysWrites, sysMkdirs, thrown,
          overlay, overlayCaptured, formatted, overlayAnswer, adapter>>

(* ------------------------------ bounds -------------------------------- *)

MaxCalls == 2

MaxOverlayWrites == 2

(* ------------------------------ strings ------------------------------- *)

StartsWith(s, p) == Len(s) >= Len(p) /\ SubSeq(s, 1, Len(p)) = p

EndsWith(s, p) == Len(s) >= Len(p) /\ SubSeq(s, Len(s) - Len(p) + 1, Len(s)) = p

\* s.substring(n): the characters of s from 0-based offset n on
Substring(s, n) == SubSeq(s, n + 1, Len(s))

\* s.indexOf(c) for a one-character c; -1 when absent
IndexOf(s, c) ==
    IF \E i \in 1..Len(s) : SubSeq(s, i, i) = c
    THEN (CHOOSE i \in 1..Len(s) :
            /\ SubSeq(s, i, i) = c
            /\ \A j \in 1..(i - 1) : SubSeq(s, j, j) # c) - 1
    ELSE -1

RECURSIVE Join(_, _)
\* parts.join(sep)
Join(parts, sep) ==
    IF Len(parts) = 0 THEN ""
    ELSE IF Len(parts) = 1 THEN parts[1]
    ELSE parts[1] \o sep \o Join(Tail(parts), sep)

(* ------------------------------- Maps --------------------------------- *)

MapHas(m, k) == \E i \in 1..Len(m) : m[i].key = k

MapGet(m, k) == m[CHOOSE i \in 1..Len(m) : m[i].key = k].value

MapSet(m, k, v) ==
    IF MapHas(m, k)
    THEN [i \in 1..Len(m) |-> IF m[i].key = k THEN [key |-> k, value |-> v] ELSE m[i]]
    ELSE Append(m, [key |-> k, value |-> v])

MapKeys(m) == [i \in 1..Len(m) |-> m[i].key]

Range(s) == {s[i] : i \in 1..Len(s)}

(* ------------------------- the real system (ts.sys) ------------------- *)

\* system.getCurrentDirectory()
Cwd == "/w"

\* system.newLine
NewLine == "\n"

LibText == "declare var Array: any;"

\* the text of a type package under node_modules/@types: it names a global type
TextTypes == "declare var process: Array<string>;"

\* the text of /w/M.ts: a module on disk that itself imports 'A'
TextM == "import {A} from 'A'; export const M = 1"

\* The files on the real disk. They do not change while a compiler lives
\* (tsc-simple.ts:68 "assuming that files on disk don't change").
\* "/w/locked.d.ts" exists but reading it throws; "/w/lib.d.ts" and
\* "/w/gone.d.ts" do not exist; "/empty" is a directory without sources;
\* the cwd has one type package installed, as the repository's own has.
DiskFiles ==
    {"/lib/lib.d.ts", "/lib/lib.es2015.d.ts", "/w/lib.es5.d.ts", "/w/M.ts", "/w/locked.d.ts",
     "/w/node_modules/@types/node/index.d.ts"}

DiskText(abs) ==
    CASE abs = "/lib/lib.d.ts" -> LibText
      [] abs = "/lib/lib.es2015.d.ts" -> LibText
      [] abs = "/w/lib.es5.d.ts" -> LibText
      [] abs = "/w/M.ts" -> TextM
      [] abs = "/w/node_modules/@types/node/index.d.ts" -> TextTypes
      [] OTHER -> ""

Unreadable == {"/w/locked.d.ts"}

\* the engine's getNormalizedAbsolutePath(fileName, currentDirectory)
AbsPath(fileName, dir) ==
    IF StartsWith(fileName, "/") THEN fileName
    ELSE IF EndsWith(dir, "/") THEN dir \o fileName
    ELSE dir \o "/" \o fileName

\* system.readFile(fileName): the text, undefined for a missing file, or a throw
SysReadFile(fileName) ==
    LET abs == AbsPath(fileName, Cwd) IN
    IF abs \in Unreadable
    THEN [kind |-> "throws", text |-> "", message |-> "EACCES: " \o abs]
    ELSE IF abs \in DiskFiles
    THEN [kind |-> "text", text |-> DiskText(abs), message |-> ""]
    ELSE [kind |-> "undefined", text |-> "", message |-> ""]

\* system.getExecutingFilePath(): the engine's executable, beside its library
ExecutingFilePath == "/lib/tsc.js"

\* system.fileExists(fileName)
SysFileExists(fileName) == AbsPath(fileName, Cwd) \in DiskFiles

\* the directories of the real disk
RealDirectories ==
    {"/", "/w", "/lib", "/empty", "/w/node_modules", "/w/node_modules/@types",
     "/w/node_modules/@types/node"}

\* system.directoryExists(path)
SysDirectoryExists(path) == path # "" /\ AbsPath(path, Cwd) \in RealDirectories

\* system.getDirectories(path): the names of the directories directly under path
SysGetDirectories(path) ==
    IF AbsPath(path, Cwd) = "/w/node_modules/@types" THEN <<"node">>
    ELSE IF AbsPath(path, Cwd) = "/w/node_modules" THEN <<"@types">>
    ELSE IF AbsPath(path, Cwd) = "/w" THEN <<"node_modules">>
    ELSE IF AbsPath(path, Cwd) = "/" THEN <<"empty", "lib", "w">>
    ELSE <<>>

(* ---------------------- the configuration parser ---------------------- *)

\* A tsconfig object: whether it has a files field and the field; the
\* compilerOptions declaration and noLib; whether compilerOptions has a lib
\* field and a typeRoots field, and the fields; the option names the engine
\* does not know.
NoConfig ==
    [present |-> FALSE, hasFiles |-> FALSE, files |-> <<>>, declaration |-> FALSE,
     noLib |-> FALSE, hasLib |-> FALSE, lib |-> <<>>, hasTypeRoots |-> FALSE,
     typeRoots |-> <<>>, unknown |-> <<>>]

TsConfig(hasFiles, files, declaration, noLib, unknown) ==
    [NoConfig EXCEPT !.present = TRUE, !.hasFiles = hasFiles, !.files = files,
                     !.declaration = declaration, !.noLib = noLib, !.unknown = unknown]

\* the tsconfig with compilerOptions.lib set
WithLib(tsconfig, lib) == [tsconfig EXCEPT !.hasLib = TRUE, !.lib = lib]

\* the tsconfig with compilerOptions.typeRoots set
WithTypeRoots(tsconfig, typeRoots) ==
    [tsconfig EXCEPT !.hasTypeRoots = TRUE, !.typeRoots = typeRoots]

\* ts.getDefaultCompilerOptions()
DefaultCompilerOptions ==
    [declaration |-> FALSE, noLib |-> FALSE, hasLib |-> FALSE, lib |-> <<>>,
     hasTypeRoots |-> FALSE, typeRoots |-> <<>>]

\* the library file the configuration parser puts in options.lib for a name
\* of compilerOptions.lib
LibFileOf(name) ==
    CASE name = "es5" -> "lib.es5.d.ts"
      [] name = "es6" -> "lib.es2015.d.ts"
      [] name = "es2015" -> "lib.es2015.d.ts"
      [] OTHER -> "lib." \o name \o ".d.ts"

\* A diagnostic of the engine. messageText is a chain of messages, outermost first.
NoFile == [fileName |-> "", text |-> "", id |-> 0]

Diag(file, start, category, code, messageText) ==
    [file |-> file, start |-> start, category |-> category, code |-> code,
     messageText |-> messageText]

RECURSIVE SetToSeq(_)
SetToSeq(S) ==
    IF S = {} THEN <<>>
    ELSE LET x == CHOOSE y \in S : TRUE IN <<x>> \o SetToSeq(S \ {x})

\* s.indexOf(sub) >= 0
Contains(s, sub) == \E i \in 1..(Len(s) - Len(sub) + 1) : SubSeq(s, i, i + Len(sub) - 1) = sub

\* the source files a directory scan finds under dir; node_modules is
\* excluded by default
ScanDir(dir) ==
    SetToSeq({f \in DiskFiles : /\ StartsWith(f, AbsPath("", dir))
                                /\ EndsWith(f, ".ts")
                                /\ ~Contains(f, "/node_modules/")})

\* ts.parseJsonConfigFileContent(tsconfig, system, basePath, {}, '<tsconfig>')
ParseConfig(tsconfig, basePath) ==
    LET scanned == ScanDir(basePath)
        unknownErrors ==
            [i \in 1..Len(tsconfig.unknown) |->
                Diag(NoFile, -1, 1, 5023,
                     <<"Unknown compiler option '" \o tsconfig.unknown[i] \o "'.">>)]
        noInputs ==
            IF ~tsconfig.hasFiles /\ Len(scanned) = 0
            THEN <<Diag(NoFile, -1, 1, 18003,
                        <<"No inputs were found in config file '<tsconfig>'.",
                          "Specified 'include' paths were '[\"**/*\"]'.">>)>>
            ELSE <<>>
    IN  [options |-> [declaration |-> tsconfig.declaration, noLib |-> tsconfig.noLib,
                      hasLib |-> tsconfig.hasLib,
                      lib |-> [i \in 1..Len(tsconfig.lib) |-> LibFileOf(tsconfig.lib[i])],
                      hasTypeRoots |-> tsconfig.hasTypeRoots,
                      typeRoots |-> tsconfig.typeRoots],
         fileNames |-> IF tsconfig.hasFiles
                       THEN [i \in 1..Len(tsconfig.files) |-> AbsPath(tsconfig.files[i], basePath)]
                       ELSE scanned,
         errors |-> unknownErrors \o noInputs]

RECURSIVE Indent(_)
Indent(n) == IF n = 0 THEN "" ELSE "  " \o Indent(n - 1)

\* ts.flattenDiagnosticMessageText(messageText, newLine)
FlattenDiagnosticMessageText(messageText, newLine) ==
    Join([i \in 1..Len(messageText) |-> Indent(i - 1) \o messageText[i]], newLine)

(* --------------------------- createCompiler --------------------------- *)

NoArgs == [tsconfig |-> NoConfig, basePath |-> "", defaultLibFileName |-> "",
           defaultLibLocation |-> ""]

NotCreated ==
    [state |-> "none", args |-> NoArgs, options |-> DefaultCompilerOptions,
     fileNames |-> <<>>, error |-> ""]

\* a createCompiler that lets the "no inputs" diagnostic (18003) pass
CreateCompilerSuppressingNoInputs(args) ==
    IF args.tsconfig.present
          /\ Len(SelectSeq(ParseConfig(args.tsconfig,
                                       IF args.basePath # "" THEN args.basePath ELSE Cwd).errors,
                           LAMBDA d : d.code # 18003)) > 0
    THEN [state |-> "threw", args |-> args, options |-> DefaultCompilerOptions,
          fileNames |-> <<>>,
          error |-> Join([i \in 1..Len(ParseConfig(args.tsconfig,
                                   IF args.basePath # "" THEN args.basePath ELSE Cwd).errors) |->
                             FlattenDiagnosticMessageText(
                                 ParseConfig(args.tsconfig,
                                     IF args.basePath # "" THEN args.basePath
                                     ELSE Cwd).errors[i].messageText,
                                 NewLine)],
                         NewLine)]
    ELSE [state |-> "ready", args |-> args,
          options |-> IF args.tsconfig.present
                      THEN ParseConfig(args.tsconfig,
                               IF args.basePath # "" THEN args.basePath ELSE Cwd).options
                      ELSE DefaultCompilerOptions,
          fileNames |-> IF args.tsconfig.present /\ args.tsconfig.hasFiles
                        THEN ParseConfig(args.tsconfig,
                                 IF args.basePath # "" THEN args.basePath ELSE Cwd).fileNames
                        ELSE <<>>,
          error |-> ""]

\* tsc-simple.ts:35-66: the closure createCompiler builds, or the error it throws
CreateCompilerResult(args) ==
    IF args.tsconfig.present
    THEN LET parsed == ParseConfig(args.tsconfig,
                                   IF args.basePath # "" THEN args.basePath ELSE Cwd)
             fileNames == IF ~args.tsconfig.hasFiles THEN <<>> ELSE parsed.fileNames
             diagnostics == parsed.errors
         IN  IF Len(diagnostics) > 0
             THEN [state |-> "threw", args |-> args, options |-> DefaultCompilerOptions,
                   fileNames |-> <<>>,
                   error |-> Join([i \in 1..Len(diagnostics) |->
                                      FlattenDiagnosticMessageText(diagnostics[i].messageText,
                                                                   NewLine)],
                                  NewLine)]
             ELSE [state |-> "ready", args |-> args, options |-> parsed.options,
                   fileNames |-> fileNames, error |-> ""]
    ELSE [state |-> "ready", args |-> args, options |-> DefaultCompilerOptions,
          fileNames |-> <<>>, error |-> ""]

(* --------------------- the host (tsc-simple.ts:70-169) ---------------- *)

\* ts.createSourceFile(fileName, text, languageVersion): a new tree object
CreateSourceFile(fileName, text, id) == [fileName |-> fileName, text |-> text, id |-> id]

\* What a host call hands back: the value it returns, the permanent cache and
\* the id counter after it, the messages it passed to onError, and the message
\* of the exception it threw ("" when it returned).
HostReturn(sf, cache, id, onError, threw) ==
    [sf |-> sf, cache |-> cache, nextId |-> id, onError |-> onError, threw |-> threw]

\* tsc-simple.ts:72-91, with rd what system.readFile(fileName) did
ReadAndCache(cache, id, fileName, hasOnError, rd) ==
    IF rd.kind = "undefined" /\ ~hasOnError
    THEN HostReturn(NoFile, cache, id, <<>>, "error reading file " \o fileName)
    ELSE HostReturn(CreateSourceFile(fileName, rd.text, id),
                    MapSet(cache, fileName, CreateSourceFile(fileName, rd.text, id)),
                    id + 1,
                    IF rd.kind = "undefined" THEN <<"error reading file " \o fileName>>
                    ELSE IF rd.kind = "throws" /\ hasOnError THEN <<rd.message>>
                    ELSE <<>>,
                    "")

\* tsc-simple.ts:70-93
GetPermanentSourceFile(cache, id, fileName, hasOnError) ==
    IF MapHas(cache, fileName)
    THEN HostReturn(MapGet(cache, fileName), cache, id, <<>>, "")
    ELSE ReadAndCache(cache, id, fileName, hasOnError, SysReadFile(fileName))

\* a getSourceFile that consults the permanent cache before the in-memory sources
GetSourceFileCacheFirst(sourceTexts, cache, id, fileName, hasOnError) ==
    IF MapHas(cache, fileName)
    THEN HostReturn(MapGet(cache, fileName), cache, id, <<>>, "")
    ELSE IF MapHas(sourceTexts, fileName)
    THEN HostReturn(MapGet(sourceTexts, fileName).sourceFile, cache, id, <<>>, "")
    ELSE GetPermanentSourceFile(cache, id, fileName, hasOnError)

\* tsc-simple.ts:95-102
GetSourceFile(sourceTexts, cache, id, fileName, hasOnError) ==
    IF MapHas(sourceTexts, fileName)
    THEN HostReturn(MapGet(sourceTexts, fileName).sourceFile, cache, id, <<>>, "")
    ELSE GetPermanentSourceFile(cache, id, fileName, hasOnError)

\* tsc-simple.ts:108-122; [kind, text] as SysReadFile
ReadFile(sourceTexts, cache, fileName) ==
    IF MapHas(sourceTexts, fileName)
    THEN [kind |-> "text", text |-> MapGet(sourceTexts, fileName).text, message |-> ""]
    ELSE IF MapHas(cache, fileName)
    THEN [kind |-> "text", text |-> MapGet(cache, fileName).text, message |-> ""]
    ELSE SysReadFile(fileName)

\* tsc-simple.ts:161
FileExists(sourceTexts, cache, fileName) ==
    MapHas(sourceTexts, fileName) \/ MapHas(cache, fileName) \/ SysFileExists(fileName)

\* tsc-simple.ts:155
GetDefaultLibFileName(args) ==
    (IF args.defaultLibLocation # "" THEN args.defaultLibLocation \o "/" ELSE "")
    \o (IF args.defaultLibFileName # "" THEN args.defaultLibFileName ELSE "lib.d.ts")

(* ------------------ source texts the engine is given ------------------ *)

TextOk == "let x = 3 + 2"
TextUndefinedName == "let x = z + 2"
TextSyntaxError == "let y = 1\nlet = 2"
TextA == "export class A {}"
TextB == "import {A} from 'A'; export class B extends A {}"
TextUsesM == "import {M} from 'M'; export let m = M"
TextPrivateName == "class P {}\nexport let p = new P()"

\* the module specifiers a text imports, in order
Imports(text) ==
    CASE text = TextB -> <<"A">>
      [] text = TextM -> <<"A">>
      [] text = TextUsesM -> <<"M">>
      [] OTHER -> <<>>

\* s.lastIndexOf("/"), 0-based; -1 when absent
LastSlash(s) ==
    IF \E i \in 1..Len(s) : SubSeq(s, i, i) = "/"
    THEN (CHOOSE i \in 1..Len(s) :
            /\ SubSeq(s, i, i) = "/"
            /\ \A j \in (i + 1)..Len(s) : SubSeq(s, j, j) # "/") - 1
    ELSE -1

\* ts.getDirectoryPath(path), with the trailing slash kept
DirectoryOf(path) == SubSeq(path, 1, LastSlash(path) + 1)

\* ts.getRootLength(path), for the paths of a POSIX system
GetRootLength(path) == IF StartsWith(path, "/") THEN 1 ELSE 0

\* ts.getDirectoryPath(path): path.substr(0, max(rootLength, lastIndexOf('/')))
GetDirectoryPath(path) ==
    SubSeq(path, 1, IF LastSlash(path) > GetRootLength(path) THEN LastSlash(path)
                    ELSE GetRootLength(path))

\* ts.combinePaths(path1, path2)
CombinePaths(path1, path2) ==
    IF path1 = "" THEN path2
    ELSE IF path2 = "" THEN path1
    ELSE IF GetRootLength(path2) # 0 THEN path2
    ELSE IF EndsWith(path1, "/") THEN path1 \o path2
    ELSE path1 \o "/" \o path2

\* ts.resolveModuleName(moduleName, containingFile, options, host).resolvedModule:
\* the candidates beside the importing file, probed with host.fileExists;
\* "" stands for undefined
StandardResolve(sourceTexts, cache, moduleName, containingFile) ==
    LET base == IF StartsWith(moduleName, "./") THEN Substring(moduleName, 2) ELSE moduleName
        dir == DirectoryOf(containingFile)
    IN  IF FileExists(sourceTexts, cache, dir \o base \o ".ts") THEN dir \o base \o ".ts"
        ELSE IF FileExists(sourceTexts, cache, dir \o base \o ".d.ts") THEN dir \o base \o ".d.ts"
        ELSE ""

\* tsc-simple.ts:125-136
LookInSourceTexts(sourceTexts, containingFile) ==
    LET prefix == IF ~EndsWith(Cwd, "/") THEN Cwd \o "/" ELSE Cwd IN
    /\ StartsWith(containingFile, prefix)
    /\ MapHas(sourceTexts, Substring(containingFile, Len(prefix)))

\* a resolution that consults the in-memory set whatever the importing file is
ResolveModuleNameAlwaysInMemory(sourceTexts, cache, moduleName, containingFile) ==
    IF MapHas(sourceTexts, moduleName \o ".ts") THEN moduleName \o ".ts"
    ELSE IF MapHas(sourceTexts, moduleName \o ".d.ts") THEN moduleName \o ".d.ts"
    ELSE StandardResolve(sourceTexts, cache, moduleName, containingFile)

\* tsc-simple.ts:138-148, for one module name
ResolveModuleName(sourceTexts, cache, moduleName, containingFile) ==
    IF LookInSourceTexts(sourceTexts, containingFile) /\ MapHas(sourceTexts, moduleName \o ".ts")
    THEN moduleName \o ".ts"
    ELSE IF LookInSourceTexts(sourceTexts, containingFile)
            /\ MapHas(sourceTexts, moduleName \o ".d.ts")
    THEN moduleName \o ".d.ts"
    ELSE StandardResolve(sourceTexts, cache, moduleName, containingFile)

\* tsc-simple.ts:124-149
ResolveModuleNames(sourceTexts, cache, moduleNames, containingFile) ==
    [i \in 1..Len(moduleNames) |->
        ResolveModuleName(sourceTexts, cache, moduleNames[i], containingFile)]

(* -------------------- the engine: ts.createProgram -------------------- *)

\* The program under construction: the permanent cache and id counter as the
\* host leaves them, the paths already processed, the program's files in
\* enumeration order, the file-processing diagnostics, and every module
\* resolution the host answered.
NewProgram(cache, id) ==
    [cache |-> cache, nextId |-> id, seen |-> {}, files |-> <<>>, fileDiags |-> <<>>,
     resolutions |-> <<>>]

\* the "Cannot read file" diagnostics of the messages a host call passed to onError
CannotReadFile(fileName, messages) ==
    [i \in 1..Len(messages) |->
        Diag(NoFile, -1, 1, 5012,
             <<"Cannot read file '" \o fileName \o "': " \o messages[i]>>)]

\* one entry per import of the file at path: what the host resolved it to, and
\* what the engine's standard resolution gives for it
Resolutions(sourceTexts, cache, moduleNames, path, resolved) ==
    [i \in 1..Len(moduleNames) |->
        [containingFile |-> path, moduleName |-> moduleNames[i],
         resolvedFileName |-> resolved[i],
         standard |-> StandardResolve(sourceTexts, cache, moduleNames[i], path)]]

\* the program once the host has answered getSourceFile and resolveModuleNames
Loaded(ps, path, fileName, got, resolutions) ==
    [ps EXCEPT !.cache = got.cache,
               !.nextId = got.nextId,
               !.seen = @ \cup {path},
               !.fileDiags = @ \o CannotReadFile(fileName, got.onError),
               !.resolutions = @ \o resolutions]

Defined(resolved) == SelectSeq(resolved, LAMBDA r : r # "")

AddFile(ps, sf) == [ps EXCEPT !.files = Append(@, sf)]

RECURSIVE LoadFile(_, _, _)
RECURSIVE LoadAll(_, _, _)
RECURSIVE LoadImports(_, _, _, _, _, _)
RECURSIVE LoadGot(_, _, _, _, _)

\* The engine's processSourceFile: ask the host for the file (with an onError
\* callback that records "Cannot read file"), resolve its imports through the
\* host, load what they resolve to, then add the file to the program.
LoadFile(sourceTexts, ps, fileName) ==
    IF AbsPath(fileName, Cwd) \in ps.seen THEN ps
    ELSE LoadGot(sourceTexts, ps, fileName, AbsPath(fileName, Cwd),
                 GetSourceFile(sourceTexts, ps.cache, ps.nextId, fileName, TRUE))

LoadGot(sourceTexts, ps, fileName, path, got) ==
    LoadImports(sourceTexts, ps, fileName, path, got,
                ResolveModuleNames(sourceTexts, got.cache, Imports(got.sf.text), path))

LoadImports(sourceTexts, ps, fileName, path, got, resolved) ==
    AddFile(LoadAll(sourceTexts,
                    Loaded(ps, path, fileName, got,
                           Resolutions(sourceTexts, got.cache, Imports(got.sf.text), path,
                                       resolved)),
                    Defined(resolved)),
            got.sf)

LoadAll(sourceTexts, ps, fileNames) ==
    IF Len(fileNames) = 0 THEN ps
    ELSE LoadAll(sourceTexts, LoadFile(sourceTexts, ps, Head(fileNames)), Tail(fileNames))

\* The engine's getEffectiveTypeRoots: options.typeRoots when given, else the
\* node_modules/@types of the current directory and of its ancestors, those
\* the host's directoryExists (tsc-simple.ts:163) finds
EffectiveTypeRoots(options) ==
    IF options.hasTypeRoots THEN options.typeRoots
    ELSE SelectSeq(<<CombinePaths(Cwd, "node_modules/@types"), "/node_modules/@types">>,
                   SysDirectoryExists)

RECURSIVE TypePackageFiles(_, _, _, _)
\* the declaration files of the packages names under the type root: for each,
\* its index.d.ts when the host's fileExists (tsc-simple.ts:161) finds it
TypePackageFiles(sourceTexts, cache, root, names) ==
    IF Len(names) = 0 THEN <<>>
    ELSE (IF FileExists(sourceTexts, cache,
                        CombinePaths(CombinePaths(root, Head(names)), "index.d.ts"))
          THEN <<CombinePaths(CombinePaths(root, Head(names)), "index.d.ts")>>
          ELSE <<>>)
         \o TypePackageFiles(sourceTexts, cache, root, Tail(names))

RECURSIVE TypeRootFiles(_, _, _)
\* The engine's automatic type directives: every package the host's
\* getDirectories (tsc-simple.ts:164) lists under a type root that exists
TypeRootFiles(sourceTexts, cache, roots) ==
    IF Len(roots) = 0 THEN <<>>
    ELSE (IF SysDirectoryExists(Head(roots))
          THEN TypePackageFiles(sourceTexts, cache, Head(roots),
                                SysGetDirectories(Head(roots)))
          ELSE <<>>)
         \o TypeRootFiles(sourceTexts, cache, Tail(roots))

\* the type packages, loaded after the roots
LoadTypes(sourceTexts, ps, options) ==
    LoadAll(sourceTexts, ps, TypeRootFiles(sourceTexts, ps.cache, EffectiveTypeRoots(options)))

\* The directory the engine looks for the files of options.lib in: the host's
\* getDefaultLibLocation when it has one (tsc-simple.ts:156), else the
\* directory of the host's getDefaultLibFileName
DefaultLibraryPath(args) ==
    IF args.defaultLibLocation # "" THEN args.defaultLibLocation
    ELSE GetDirectoryPath(GetDefaultLibFileName(args))

\* The library files the engine loads: none under options.noLib, the host's
\* default library when options.lib is absent, else the files of options.lib
DefaultLibFiles(options, args) ==
    IF options.noLib THEN <<>>
    ELSE IF ~options.hasLib THEN <<GetDefaultLibFileName(args)>>
    ELSE [i \in 1..Len(options.lib) |-> CombinePaths(DefaultLibraryPath(args), options.lib[i])]

\* a library file goes in front of the program's files, where the others are
\* appended; before and after are the program around the load of one
Unshifted(before, after) ==
    IF Len(after.files) = Len(before.files) THEN after
    ELSE [after EXCEPT !.files = <<after.files[Len(after.files)]>>
                                 \o SubSeq(after.files, 1, Len(after.files) - 1)]

RECURSIVE LoadDefaultLib(_, _, _)
\* the library files, loaded last
LoadDefaultLib(sourceTexts, ps, fileNames) ==
    IF Len(fileNames) = 0 THEN ps
    ELSE LoadDefaultLib(sourceTexts,
                        Unshifted(ps, LoadFile(sourceTexts, ps, Head(fileNames))),
                        Tail(fileNames))

\* ts.createProgram(rootNames, options, host): the roots, then the type
\* packages, then the library
CreateProgram(sourceTexts, cache, id, rootNames, options, args) ==
    LoadDefaultLib(sourceTexts,
                   LoadTypes(sourceTexts,
                             LoadAll(sourceTexts, NewProgram(cache, id), rootNames),
                             options),
                   DefaultLibFiles(options, args))

(* ------------------------ the engine: program.emit -------------------- *)

RemoveTsExtension(fileName) ==
    IF EndsWith(fileName, ".ts") THEN SubSeq(fileName, 1, Len(fileName) - 3) ELSE fileName

EmitJs(text) ==
    CASE text = TextOk -> "var x = 3 + 2;\n"
      [] text = TextUndefinedName -> "var x = z + 2;\n"
      [] OTHER -> "/* js */ " \o text

EmitDts(text) ==
    CASE text = TextOk -> "declare let x: number;\n"
      [] text = TextUndefinedName -> "declare let x: any;\n"
      [] OTHER -> "/* d.ts */ " \o text

\* the files one source file emits, as (name, text) pairs
EmitFile(sf, options) ==
    IF EndsWith(sf.fileName, ".d.ts") THEN <<>>
    ELSE <<[name |-> RemoveTsExtension(sf.fileName) \o ".js", text |-> EmitJs(sf.text)]>>
         \o (IF options.declaration
             THEN <<[name |-> RemoveTsExtension(sf.fileName) \o ".d.ts",
                     text |-> EmitDts(sf.text)]>>
             ELSE <<>>)

RECURSIVE EmitAll(_, _)
\* program.emit(): every host.writeFile(name, text) call it makes, in order
EmitAll(files, options) ==
    IF Len(files) = 0 THEN <<>>
    ELSE EmitFile(Head(files), options) \o EmitAll(Tail(files), options)

\* The caller's onWrite argument: absent, a sink that keeps what it is given,
\* or a sink that throws when it is called.
OnWriteKinds == {"none", "collect", "throws"}

SinkError == "sink failed"

\* What a call has done to the outside world: the writeFile calls the host
\* received, the pairs the caller's sink was called with, the calls that
\* reached the real system's writeFile and createDirectory, and the message
\* of the exception that came out of the host's writeFile ("" when none).
NoIo == [written |-> <<>>, captured |-> <<>>, sysWrites |-> <<>>, sysMkdirs |-> <<>>,
         threw |-> ""]

\* a writeFile that falls back to the real system when no sink is given
HostWriteFileToDisk(onWrite, io, name, text) ==
    CASE onWrite = "none" ->
            [io EXCEPT !.written = Append(@, [name |-> name, text |-> text]),
                       !.sysWrites = Append(@, name)]
      [] onWrite = "collect" ->
            [io EXCEPT !.written = Append(@, [name |-> name, text |-> text]),
                       !.captured = Append(@, [name |-> name, text |-> text])]
      [] OTHER ->
            [io EXCEPT !.written = Append(@, [name |-> name, text |-> text]),
                       !.captured = Append(@, [name |-> name, text |-> text]),
                       !.threw = SinkError]

\* tsc-simple.ts:154, the host's writeFile: onWrite ? onWrite(name, text) : void 0,
\* with nothing around the call of the sink
HostWriteFile(onWrite, io, name, text) ==
    CASE onWrite = "none" ->
            [io EXCEPT !.written = Append(@, [name |-> name, text |-> text])]
      [] onWrite = "collect" ->
            [io EXCEPT !.written = Append(@, [name |-> name, text |-> text]),
                       !.captured = Append(@, [name |-> name, text |-> text])]
      [] OTHER ->
            [io EXCEPT !.written = Append(@, [name |-> name, text |-> text]),
                       !.captured = Append(@, [name |-> name, text |-> text]),
                       !.threw = SinkError]

RECURSIVE WriteAll(_, _, _)
\* program.emit() calling host.writeFile file by file; an exception out of
\* writeFile ends the emit
WriteAll(onWrite, io, writes) ==
    IF Len(writes) = 0 \/ io.threw # "" THEN io
    ELSE WriteAll(onWrite, HostWriteFile(onWrite, io, Head(writes).name, Head(writes).text),
                  Tail(writes))

(* --------------------- the engine: diagnostics ------------------------ *)

\* program.getOptionsDiagnostics(): the file-processing diagnostics
GetOptionsDiagnostics(program) == program.fileDiags

\* a file of the program declares the global types
HasGlobalTypes(program) == \E i \in 1..Len(program.files) : program.files[i].text = LibText

\* program.getGlobalDiagnostics(): the global types are missing without a library
GetGlobalDiagnostics(program) ==
    IF HasGlobalTypes(program)
    THEN <<>>
    ELSE <<Diag(NoFile, -1, 1, 2318, <<"Cannot find global type 'Array'.">>)>>

\* program.getSyntacticDiagnostics(sourceFile)
GetSyntacticDiagnostics(program, sf) ==
    IF sf.text = TextSyntaxError
    THEN <<Diag(sf, 14, 1, 1134, <<"Variable declaration expected.">>)>>
    ELSE <<>>

\* program.getSemanticDiagnostics(sourceFile): undefined names, among them the
\* global type a type package names when no file of the program declares it,
\* and the imports of this file the host resolved to nothing
GetSemanticDiagnostics(program, sf) ==
    (IF sf.text = TextUndefinedName
     THEN <<Diag(sf, 8, 1, 2304, <<"Cannot find name 'z'.">>)>>
     ELSE <<>>)
    \o (IF sf.text = TextTypes /\ ~HasGlobalTypes(program)
        THEN <<Diag(sf, 21, 1, 2304, <<"Cannot find name 'Array'.">>)>>
        ELSE <<>>)
    \o [i \in 1..Len(SelectSeq(program.resolutions,
                               LAMBDA r : /\ r.containingFile = AbsPath(sf.fileName, Cwd)
                                          /\ r.resolvedFileName = "")) |->
            Diag(sf, 16, 1, 2307, <<"Cannot find module.">>)]

\* program.getDeclarationDiagnostics(sourceFile): an exported declaration whose
\* type is not exported. The engine computes these whenever it is asked,
\* whether or not options.declaration is set.
GetDeclarationDiagnostics(program, sf) ==
    IF sf.text = TextPrivateName
    THEN <<Diag(sf, 22, 1, 4025,
                <<"Exported variable 'p' has or is using private name 'P'.">>)>>
    ELSE <<>>

(* ------------- the orchestrator (tsc-simple.ts:171-260) --------------- *)

\* {...d, diagnosticType}
Tagged(ds, diagnosticType) ==
    [i \in 1..Len(ds) |->
        [file |-> ds[i].file, start |-> ds[i].start, category |-> ds[i].category,
         code |-> ds[i].code, messageText |-> ds[i].messageText,
         diagnosticType |-> diagnosticType]]

\* a forEach turn that forgets the parseOnly test
FileDiagnosticsIgnoringParseOnly(program, parseOnly, sf) ==
    [diagnostics |->
        Tagged(GetSyntacticDiagnostics(program, sf), "syntactic")
        \o Tagged(GetSemanticDiagnostics(program, sf), "semantic")
        \o Tagged(GetDeclarationDiagnostics(program, sf), "declaration"),
     engine |->
        <<"getSyntacticDiagnostics", "getSemanticDiagnostics", "getDeclarationDiagnostics">>]

\* tsc-simple.ts:195-201, one turn of the forEach: the diagnostics pushed and
\* the engine queries made
FileDiagnostics(program, parseOnly, sf) ==
    [diagnostics |->
        Tagged(GetSyntacticDiagnostics(program, sf), "syntactic")
        \o (IF ~parseOnly
            THEN Tagged(GetSemanticDiagnostics(program, sf), "semantic")
                 \o Tagged(GetDeclarationDiagnostics(program, sf), "declaration")
            ELSE <<>>),
     engine |->
        <<"getSyntacticDiagnostics">>
        \o (IF ~parseOnly
            THEN <<"getSemanticDiagnostics", "getDeclarationDiagnostics">>
            ELSE <<>>)]

Both(h, t) ==
    [diagnostics |-> h.diagnostics \o t.diagnostics, engine |-> h.engine \o t.engine]

RECURSIVE AllFileDiagnostics(_, _, _)
\* tsc-simple.ts:195-201
AllFileDiagnostics(program, parseOnly, files) ==
    IF Len(files) = 0 THEN [diagnostics |-> <<>>, engine |-> <<>>]
    ELSE Both(FileDiagnostics(program, parseOnly, Head(files)),
              AllFileDiagnostics(program, parseOnly, Tail(files)))

\* a collection that asks for the global diagnostics before the option ones
ProgramWideDiagnosticsGlobalFirst(program, parseOnly) ==
    [diagnostics |->
        (IF ~parseOnly THEN Tagged(GetGlobalDiagnostics(program), "global") ELSE <<>>)
        \o Tagged(GetOptionsDiagnostics(program), "option"),
     engine |->
        (IF ~parseOnly THEN <<"getGlobalDiagnostics">> ELSE <<>>)
        \o <<"getOptionsDiagnostics", "getSourceFiles">>]

\* tsc-simple.ts:191-194
ProgramWideDiagnostics(program, parseOnly) ==
    [diagnostics |->
        Tagged(GetOptionsDiagnostics(program), "option")
        \o (IF ~parseOnly THEN Tagged(GetGlobalDiagnostics(program), "global") ELSE <<>>),
     engine |->
        <<"getOptionsDiagnostics">>
        \o (IF ~parseOnly THEN <<"getGlobalDiagnostics">> ELSE <<>>)
        \o <<"getSourceFiles">>]

\* tsc-simple.ts:190-203
GetProgramDiagnostics(program, parseOnly) ==
    Both(ProgramWideDiagnostics(program, parseOnly),
         AllFileDiagnostics(program, parseOnly, program.files))

\* tsc-simple.ts:241-244
MakeSourceTexts(sources, id) ==
    [i \in 1..Len(sources) |->
        [key |-> sources[i].key,
         value |-> [text |-> sources[i].value,
                    sourceFile |-> CreateSourceFile(sources[i].key, sources[i].value,
                                                    id + i - 1)]]]

\* tsc-simple.ts:249-255: the result object, with the permanent cache, the id
\* counter and the outside world as the call leaves them. error is the message
\* of the exception the call threw, "" when it returned the result; emitted
\* are the writeFile calls the engine made. A call that throws out of emit
\* collects no diagnostics and returns no result.
CallReturn(sources, onWrite, parseOnly, sourceTexts, program, io, pd) ==
    [result |->
        [sources |-> sources, onWrite |-> onWrite, hasSink |-> onWrite # "none",
         parseOnly |-> parseOnly,
         sourceTexts |-> sourceTexts,
         program |-> program,
         files |-> program.files,
         resolutions |-> program.resolutions,
         diagnostics |-> IF io.threw = "" THEN pd.diagnostics ELSE <<>>,
         emitted |-> io.written,
         captured |-> io.captured,
         engine |-> [i \in 1..Len(sources) |-> "createSourceFile"]
                    \o <<"createProgram">>
                    \o (IF ~parseOnly THEN <<"emit">> ELSE <<>>)
                    \o (IF io.threw = "" THEN pd.engine ELSE <<>>),
         error |-> io.threw],
     cache |-> program.cache,
     nextId |-> program.nextId,
     io |-> io]

\* tsc-simple.ts:246-248: program.emit() unless parseOnly
Emitted(program, options, parseOnly) ==
    IF ~parseOnly THEN EmitAll(program.files, options) ELSE <<>>

\* tsc-simple.ts:246-256, once the program is built
WithProgram(c, sources, onWrite, parseOnly, sourceTexts, program) ==
    CallReturn(sources, onWrite, parseOnly, sourceTexts, program,
               WriteAll(onWrite, NoIo, Emitted(program, c.options, parseOnly)),
               GetProgramDiagnostics(program, parseOnly))

\* tsc-simple.ts:245, once the source texts are built
WithSourceTexts(c, cache, id, sources, onWrite, parseOnly, sourceTexts) ==
    WithProgram(c, sources, onWrite, parseOnly, sourceTexts,
                CreateProgram(sourceTexts, cache, id + Len(sources),
                              c.fileNames \o MapKeys(sourceTexts), c.options, c.args))

\* tsc-simple.ts:239-256
CompileOrParseMap(c, cache, id, sources, onWrite, parseOnly) ==
    WithSourceTexts(c, cache, id, sources, onWrite, parseOnly,
                    MakeSourceTexts(sources, id))

SourceName == "$.ts"

\* tsc-simple.ts:217-222: the single-string result binds its synthetic file
SingleResult(r, parseOnly) ==
    [r EXCEPT !.result =
        [kind |-> IF parseOnly THEN "parse" ELSE "compile",
         sourceFile |-> IF r.result.error = ""
                        THEN GetSourceFile(r.result.sourceTexts, r.cache, r.nextId,
                                           SourceName, FALSE).sf
                        ELSE NoFile] @@ r.result]

\* tsc-simple.ts:214-223
CompileOrParseSource(c, cache, id, source, onWrite, parseOnly) ==
    SingleResult(CompileOrParseMap(c, cache, id, <<[key |-> SourceName, value |-> source]>>,
                                   onWrite, parseOnly),
                 parseOnly)

\* tsc-simple.ts:249-255: the map result binds no source file
MapResult(r) ==
    [r EXCEPT !.result = [kind |-> "compileMap", sourceFile |-> NoFile] @@ r.result]

\* tsc-simple.ts:258-260
CompileMapCall(c, cache, id, sources, onWrite) ==
    MapResult(CompileOrParseMap(c, cache, id, sources, onWrite, FALSE))

(* ----------------------- the result's operations ---------------------- *)

\* ts.DiagnosticCategory[d.category]
DiagnosticCategory(category) ==
    CASE category = 0 -> "Warning"
      [] category = 1 -> "Error"
      [] OTHER -> "Message"

\* sourceFile.getLineAndCharacterOfPosition(start), both 0-based
LineAndCharacterOfPosition(text, start) ==
    LET breaks == {i \in 1..Len(text) : i <= start /\ SubSeq(text, i, i) = "\n"}
        lineStart == IF breaks = {} THEN 0 ELSE CHOOSE i \in breaks : \A j \in breaks : j <= i
    IN  [line |-> Cardinality(breaks), character |-> start - lineStart]

\* a formatDiagnostic that recognises the synthetic file by its name
FormatDiagnosticByName(d, sourceFile) ==
    LET fileName ==
            IF d.file # NoFile
            THEN (IF sourceFile # NoFile /\ d.file.fileName = sourceFile.fileName
                  THEN "<source>"
                  ELSE d.file.fileName)
            ELSE ""
        p == LineAndCharacterOfPosition(d.file.text, d.start)
        lineCol ==
            IF d.file # NoFile /\ d.start >= 0
            THEN "(" \o ToString(p.line + 1) \o "," \o ToString(p.character + 1) \o "): "
            ELSE ""
    IN  fileName \o lineCol \o DiagnosticCategory(d.category) \o " TS" \o ToString(d.code)
        \o ": " \o FlattenDiagnosticMessageText(d.messageText, NewLine)

\* tsc-simple.ts:171-184; sourceFile is NoFile when the caller binds none
FormatDiagnostic(d, sourceFile) ==
    LET fileName ==
            IF d.file # NoFile
            THEN (IF sourceFile # NoFile /\ d.file = sourceFile THEN "<source>"
                  ELSE d.file.fileName)
            ELSE ""
        p == LineAndCharacterOfPosition(d.file.text, d.start)
        lineCol ==
            IF d.file # NoFile /\ d.start >= 0
            THEN "(" \o ToString(p.line + 1) \o "," \o ToString(p.character + 1) \o "): "
            ELSE ""
    IN  fileName \o lineCol \o DiagnosticCategory(d.category) \o " TS" \o ToString(d.code)
        \o ": " \o FlattenDiagnosticMessageText(d.messageText, NewLine)

\* tsc-simple.ts:221 and 252: the formatDiagnostic a result carries
ResultFormatDiagnostic(r, d) == FormatDiagnostic(d, r.sourceFile)

\* tsc-simple.ts:205-207 through 253: the getSourceFileNames a result carries
\* reads the compiler's permanent cache at the time it is called
GetSourceFileNames(sourceTexts, cache) == MapKeys(sourceTexts) \o MapKeys(cache)

(* ------------- the overlay (simple-sys.ts:6-54) ----------------------- *)

NoOverlay == [state |-> "none", sources |-> <<>>, hasSink |-> FALSE, error |-> ""]

\* the keys of sources that contain a '/'
SlashNames(sources) == SelectSeq(MapKeys(sources), LAMBDA n : IndexOf(n, "/") >= 0)

\* simple-sys.ts:6-42: the overlay createSimpleSys builds, or the error it throws
CreateSimpleSysResult(sources, hasSink) ==
    IF Len(SlashNames(sources)) > 0
    THEN [state |-> "threw", sources |-> sources, hasSink |-> hasSink,
          error |-> "source name may not contain /: " \o Head(SlashNames(sources))]
    ELSE [state |-> "ready", sources |-> sources, hasSink |-> hasSink, error |-> ""]

\* simple-sys.ts:44-54; [defined, name], defined FALSE standing for undefined
GetRelativeCwdName(cwd, path) ==
    IF StartsWith(path, "./") THEN [defined |-> TRUE, name |-> Substring(path, 2)]
    ELSE IF StartsWith(path, cwd) THEN [defined |-> TRUE, name |-> Substring(path, Len(cwd))]
    ELSE IF ~StartsWith(path, "/") THEN [defined |-> TRUE, name |-> path]
    ELSE [defined |-> FALSE, name |-> ""]

\* simple-sys.ts:14-17
SlashTerminated(cwd) == IF ~EndsWith(cwd, "/") THEN cwd \o "/" ELSE cwd

\* simple-sys.ts:22 and 33: sourceName && sources.has(sourceName)
InSources(sources, sourceName) ==
    sourceName.defined /\ sourceName.name # "" /\ MapHas(sources, sourceName.name)

\* a readFile that takes an in-memory source of empty text for a missing one
SimpleSysReadFileIfText(sources, path) ==
    IF /\ InSources(sources, GetRelativeCwdName(SlashTerminated(Cwd), path))
       /\ MapGet(sources, GetRelativeCwdName(SlashTerminated(Cwd), path).name) # ""
    THEN [from |-> "memory", kind |-> "text", message |-> "",
          text |-> MapGet(sources, GetRelativeCwdName(SlashTerminated(Cwd), path).name)]
    ELSE [from |-> "system"] @@ SysReadFile(path)

\* simple-sys.ts:20-27, the overlay's readFile: what it returns, as SysReadFile,
\* and whether the answer came from the in-memory sources or the real system
SimpleSysReadFile(sources, path) ==
    IF InSources(sources, GetRelativeCwdName(SlashTerminated(Cwd), path))
    THEN [from |-> "memory", kind |-> "text", message |-> "",
          text |-> MapGet(sources, GetRelativeCwdName(SlashTerminated(Cwd), path).name)]
    ELSE [from |-> "system"] @@ SysReadFile(path)

\* simple-sys.ts:31-34, the overlay's fileExists
SimpleSysFileExists(sources, path) ==
    IF InSources(sources, GetRelativeCwdName(SlashTerminated(Cwd), path))
    THEN [from |-> "memory", exists |-> TRUE]
    ELSE [from |-> "system", exists |-> SysFileExists(path)]

\* no readFile or fileExists call on the overlay yet
NoAnswer ==
    [op |-> "none", path |-> "", from |-> "", kind |-> "", text |-> "", message |-> "",
     exists |-> FALSE]

\* simple-sys.ts:28-30, the overlay's writeFile
SimpleSysWriteFile(hasSink, io, path, data) ==
    IF hasSink
    THEN [io EXCEPT !.captured = Append(@, [name |-> path, text |-> data])]
    ELSE io

\* simple-sys.ts:35-37, the overlay's createDirectory: the message it throws
SimpleSysCreateDirectory(path) == "createDirectory: not allowed"

(* ---- the host adapter over a system (simple-sys.ts:165-283) ---------- *)

RECURSIVE NormalizePath(_)
\* ts.normalizePath(path), for paths without backslashes and '..': the '.'
\* components in front are dropped
NormalizePath(path) ==
    IF StartsWith(path, "./") THEN NormalizePath(Substring(path, 2)) ELSE path

\* simple-sys.ts:189-198: the answer
DirectoryExists(existingDirectories, directoryPath) ==
    directoryPath \in existingDirectories \/ SysDirectoryExists(directoryPath)

\* simple-sys.ts:189-198: the cache afterwards
DirectoryRemembered(existingDirectories, directoryPath) ==
    IF directoryPath \notin existingDirectories /\ SysDirectoryExists(directoryPath)
    THEN existingDirectories \cup {directoryPath}
    ELSE existingDirectories

\* simple-sys.ts:204: sys.createDirectory(directoryPath) on the overlay, once
\* the parent directories are dealt with; up is how that went
EnsureCreated(up, directoryPath) ==
    IF up.threw # "" THEN up
    ELSE [existingDirectories |-> up.existingDirectories,
          created |-> Append(up.created, directoryPath),
          threw |-> SimpleSysCreateDirectory(directoryPath)]

RECURSIVE EnsureDirectoriesExist(_, _)
\* simple-sys.ts:200-206: the directory cache afterwards, the createDirectory
\* calls made on the system, and the message of the exception thrown
EnsureDirectoriesExist(existingDirectories, directoryPath) ==
    IF Len(directoryPath) <= GetRootLength(directoryPath)
    THEN [existingDirectories |-> existingDirectories, created |-> <<>>, threw |-> ""]
    ELSE IF DirectoryExists(existingDirectories, directoryPath)
    THEN [existingDirectories |-> DirectoryRemembered(existingDirectories, directoryPath),
          created |-> <<>>, threw |-> ""]
    ELSE EnsureCreated(EnsureDirectoriesExist(existingDirectories,
                                              GetDirectoryPath(directoryPath)),
                       directoryPath)

\* sys.createHash(data) of the real system, which the overlay passes through;
\* different data have different hashes
SysCreateHash(data) == "#" \o data

\* the modification time of every file of the real disk, which does not change
DiskModifiedTime == 1000

\* sys.getModifiedTime(fileName) of the real system, which the overlay passes
\* through; defined FALSE stands for undefined, the answer for a missing file
SysGetModifiedTime(fileName) ==
    IF AbsPath(fileName, Cwd) \in DiskFiles
    THEN [defined |-> TRUE, time |-> DiskModifiedTime]
    ELSE [defined |-> FALSE, time |-> 0]

\* simple-sys.ts:221-224: the output has not changed since the last write
Unchanged(outputFingerprints, fileName, hash, writeByteOrderMark, mtimeBefore) ==
    /\ MapHas(outputFingerprints, fileName)
    /\ MapGet(outputFingerprints, fileName).byteOrderMark = writeByteOrderMark
    /\ MapGet(outputFingerprints, fileName).hash = hash
    /\ MapGet(outputFingerprints, fileName).mtime.time = mtimeBefore.time

\* simple-sys.ts:221-224 throws when the fingerprint it compares has no
\* modification time: fingerprint.mtime.getTime() of undefined
NoTimeToCompare(outputFingerprints, fileName, hash, writeByteOrderMark) ==
    /\ MapHas(outputFingerprints, fileName)
    /\ MapGet(outputFingerprints, fileName).byteOrderMark = writeByteOrderMark
    /\ MapGet(outputFingerprints, fileName).hash = hash
    /\ ~MapGet(outputFingerprints, fileName).mtime.defined

\* simple-sys.ts:210-238 over the overlay ov: the fingerprints afterwards, the
\* pairs the sink received, and the message of the exception thrown
WriteFileIfUpdated(ov, outputFingerprints, fileName, data, writeByteOrderMark) ==
    IF /\ SysGetModifiedTime(fileName).defined
       /\ NoTimeToCompare(outputFingerprints, fileName, SysCreateHash(data),
                          writeByteOrderMark)
    THEN [outputFingerprints |-> outputFingerprints, delivered |-> <<>>,
          threw |-> "Cannot read property 'getTime' of undefined"]
    ELSE IF /\ SysGetModifiedTime(fileName).defined
            /\ Unchanged(outputFingerprints, fileName, SysCreateHash(data),
                         writeByteOrderMark, SysGetModifiedTime(fileName))
    THEN [outputFingerprints |-> outputFingerprints, delivered |-> <<>>, threw |-> ""]
    ELSE [outputFingerprints |->
              MapSet(outputFingerprints, fileName,
                     [hash |-> SysCreateHash(data), byteOrderMark |-> writeByteOrderMark,
                      mtime |-> SysGetModifiedTime(fileName)]),
          delivered |-> SimpleSysWriteFile(ov.hasSink, NoIo, fileName, data).captured,
          threw |-> ""]

\* simple-sys.ts:244-249 once the directories are ensured: through the
\* fingerprints when options.watch is set and the system has createHash and
\* getModifiedTime, as the real system has; else straight to sys.writeFile
WriteOrUpdate(ov, a, ensured, fileName, data, writeByteOrderMark) ==
    IF ensured.threw # ""
    THEN [outputFingerprints |-> a.outputFingerprints, delivered |-> <<>>,
          threw |-> ensured.threw]
    ELSE IF a.watch
    THEN WriteFileIfUpdated(ov, a.outputFingerprints, fileName, data, writeByteOrderMark)
    ELSE [outputFingerprints |-> a.outputFingerprints,
          delivered |-> SimpleSysWriteFile(ov.hasSink, NoIo, fileName, data).captured,
          threw |-> ""]

\* simple-sys.ts:240-257 once the body of the try has run as wrote: what the
\* call leaves of the adapter a
AdapterWritten(a, ensured, wrote, fileName, data, hasOnError) ==
    [state |-> a.state, watch |-> a.watch,
     outputFingerprints |-> wrote.outputFingerprints,
     existingDirectories |-> ensured.existingDirectories,
     op |-> "writeFile", fileName |-> fileName, hasOnError |-> hasOnError,
     text |-> data,
     created |-> ensured.created,
     failed |-> wrote.threw # "",
     onError |-> IF wrote.threw # "" /\ hasOnError THEN <<wrote.threw>> ELSE <<>>,
     delivered |-> wrote.delivered,
     threw |-> ""]

\* simple-sys.ts:242-249 once the directories are ensured
AdapterEnsured(ov, a, ensured, fileName, data, writeByteOrderMark, hasOnError) ==
    AdapterWritten(a, ensured,
                   WriteOrUpdate(ov, a, ensured, fileName, data, writeByteOrderMark),
                   fileName, data, hasOnError)

\* simple-sys.ts:240-257, the writeFile of the adapter a over the overlay ov
AdapterWriteFile(ov, a, fileName, data, writeByteOrderMark, hasOnError) ==
    AdapterEnsured(ov, a,
                   EnsureDirectoriesExist(a.existingDirectories,
                                          GetDirectoryPath(NormalizePath(fileName))),
                   fileName, data, writeByteOrderMark, hasOnError)

\* simple-sys.ts:176-186 once sys.readFile has answered rd
AdapterGot(a, rd, fileName, hasOnError) ==
    [state |-> a.state, watch |-> a.watch,
     outputFingerprints |-> a.outputFingerprints,
     existingDirectories |-> a.existingDirectories,
     op |-> "getSourceFile", fileName |-> fileName, hasOnError |-> hasOnError,
     text |-> IF rd.kind = "text" THEN rd.text ELSE "",
     created |-> <<>>,
     failed |-> rd.kind # "text",
     onError |-> IF rd.kind = "throws" /\ hasOnError THEN <<rd.message>> ELSE <<>>,
     delivered |-> <<>>,
     threw |-> ""]

\* simple-sys.ts:174-187, the getSourceFile of the adapter a over the overlay ov
AdapterGetSourceFile(ov, a, fileName, hasOnError) ==
    AdapterGot(a, SimpleSysReadFile(ov.sources, fileName), fileName, hasOnError)

\* no adapter yet
NoAdapter ==
    [state |-> "none", watch |-> FALSE, outputFingerprints |-> <<>>,
     existingDirectories |-> {}, op |-> "none", fileName |-> "", hasOnError |-> FALSE,
     text |-> "", created |-> <<>>, failed |-> FALSE, onError |-> <<>>,
     delivered |-> <<>>, threw |-> ""]

\* simple-sys.ts:165-283: the adapter createCompilerHost(sys, options) returns,
\* with an empty directory cache and no fingerprints; watch is options.watch
CreateCompilerHostResult(watch) == [NoAdapter EXCEPT !.state = "ready", !.watch = watch]

\* no formatDiagnostic call yet
NoFormat ==
    [result |-> 0, text |-> "",
     d |-> [file |-> NoFile, start |-> -1, category |-> 1, code |-> 0,
            messageText |-> <<>>, diagnosticType |-> "option"]]

(* ------------------------------ inputs -------------------------------- *)

\* the arguments createCompiler is called with
CompilerArgs ==
    { \* createCompiler({}), test 'b': the default library is not in the cwd
      NoArgs,
      \* test 'a': explicit library files, declarations on, no type roots
      [NoArgs EXCEPT !.tsconfig =
          WithTypeRoots(TsConfig(TRUE, <<"lib.es5.d.ts">>, TRUE, TRUE, <<>>), <<>>)],
      \* an explicit file that does not exist
      [NoArgs EXCEPT !.tsconfig = TsConfig(TRUE, <<"lib.es5.d.ts", "gone.d.ts">>, FALSE, TRUE, <<>>)],
      \* test 'c': no files field, the scan of the cwd finds sources; the
      \* library of compilerOptions.lib is looked for in defaultLibLocation
      [NoArgs EXCEPT !.tsconfig = WithLib(TsConfig(FALSE, <<>>, FALSE, FALSE, <<>>), <<"es6">>),
                     !.defaultLibLocation = "/lib"],
      \* test 'd': no configuration, the default library in defaultLibLocation
      [NoArgs EXCEPT !.defaultLibLocation = "/lib"],
      \* test 'e': an empty compilerOptions.lib, no library is loaded
      [NoArgs EXCEPT !.tsconfig = WithLib(TsConfig(FALSE, <<>>, FALSE, FALSE, <<>>), <<>>)],
      \* no files field and a base path where the scan finds nothing
      [NoArgs EXCEPT !.tsconfig = TsConfig(FALSE, <<>>, FALSE, FALSE, <<>>),
                     !.basePath = "/empty", !.defaultLibLocation = "/lib"],
      \* malformed options
      [NoArgs EXCEPT !.tsconfig = TsConfig(TRUE, <<"lib.es5.d.ts">>, FALSE, TRUE,
                                           <<"bogus", "bogus2">>)],
      [NoArgs EXCEPT !.tsconfig = TsConfig(FALSE, <<>>, FALSE, FALSE, <<"bogus">>),
                     !.basePath = "/empty"] }

\* the strings compile and parse are called with
CompileSources == {TextOk, TextUndefinedName, TextPrivateName}

ParseSources == {TextUndefinedName, TextSyntaxError}

Source(name, text) == [key |-> name, value |-> text]

\* the maps compileMap is called with: test 'a'; a declaration-only import
\* beside a source named like a file on disk and a source of empty text;
\* an import of a module on disk beside in-memory sources that also have
\* both forms of A; a name with a directory separator
SourceMaps ==
    { <<Source("A.ts", TextA), Source("B.ts", TextB)>>,
      <<Source("B.ts", TextB), Source("A.d.ts", TextA), Source("M.ts", TextOk),
        Source("E.ts", "")>>,
      <<Source("U.ts", TextUsesM), Source("B.ts", TextB), Source("A.d.ts", TextA),
        Source("A.ts", TextA)>>,
      <<Source("a/b.ts", TextB)>> }

\* the paths the overlay is asked to write
OverlayPaths == {"out.js", "/w/out/out.js"}

\* the paths the overlay is asked to read or probe: in-memory names as they
\* are, under './', under the cwd and under another directory; a path that
\* continues the cwd without a separator; files of the real system only
OverlayReadPaths ==
    {"M.ts", "./E.ts", "/w/M.ts", "/lib/M.ts", "/wE.ts", "/lib/lib.d.ts", "lib.es5.d.ts",
     "locked.d.ts"}

\* the files the adapter is asked to write: beside the cwd's sources, over a
\* file of the real disk by its absolute path, and in a directory that does
\* not exist
AdapterWritePaths == {"out.js", "/w/M.ts", "./out/out.js"}

\* the texts the adapter is asked to write
AdapterWriteData == {TextOk, "changed"}

\* the files the adapter is asked to load: an in-memory name that is also on
\* disk, a file that does not exist, a file whose read throws
AdapterReadPaths == {"M.ts", "gone.d.ts", "locked.d.ts"}

\* the names a caller looks up through a result's getSourceFile
LookupNames == {SourceName, "M.ts", "gone.d.ts"}

(* ------------------------------ actions ------------------------------- *)

Init ==
    /\ compiler = NotCreated
    /\ permanentSourceFiles = <<>>
    /\ nextId = 1
    /\ results = <<>>
    /\ sysWrites = <<>>
    /\ sysMkdirs = <<>>
    /\ thrown = ""
    /\ overlay = NoOverlay
    /\ overlayCaptured = <<>>
    /\ formatted = NoFormat
    /\ overlayAnswer = NoAnswer
    /\ adapter = NoAdapter

\* A run drives either a compiler or an overlay: tsc-simple.ts never builds an
\* overlay, and the two share nothing but the real system.

\* createCompiler(args)
CreateCompiler(args) ==
    /\ compiler.state = "none"
    /\ overlay.state = "none"
    /\ compiler' = CreateCompilerResult(args)
    /\ thrown' = compiler'.error
    /\ UNCHANGED <<permanentSourceFiles, nextId, results, sysWrites, sysMkdirs,
                   overlay, overlayCaptured, formatted, overlayAnswer, adapter>>

\* what a compile, parse or compileMap call leaves behind
Returned(r) ==
    /\ results' = Append(results, r.result)
    /\ permanentSourceFiles' = r.cache
    /\ nextId' = r.nextId
    /\ sysWrites' = sysWrites \o r.io.sysWrites
    /\ sysMkdirs' = sysMkdirs \o r.io.sysMkdirs
    /\ thrown' = r.result.error
    /\ UNCHANGED <<compiler, overlay, overlayCaptured, formatted, overlayAnswer, adapter>>

\* compiler.compile(source, onWrite?)
Compile(source, onWrite) ==
    /\ compiler.state = "ready"
    /\ Len(results) < MaxCalls
    /\ Returned(CompileOrParseSource(compiler, permanentSourceFiles, nextId, source,
                                     onWrite, FALSE))

\* compiler.parse(source)
Parse(source) ==
    /\ compiler.state = "ready"
    /\ Len(results) < MaxCalls
    /\ Returned(CompileOrParseSource(compiler, permanentSourceFiles, nextId, source,
                                     "none", TRUE))

\* compiler.compileMap(sources, onWrite?)
CompileMap(sources, onWrite) ==
    /\ compiler.state = "ready"
    /\ Len(results) < MaxCalls
    /\ Returned(CompileMapCall(compiler, permanentSourceFiles, nextId, sources, onWrite))

\* what a result's getSourceFile call leaves behind
Looked(got) ==
    /\ permanentSourceFiles' = got.cache
    /\ nextId' = got.nextId
    /\ thrown' = got.threw
    /\ UNCHANGED <<compiler, results, sysWrites, sysMkdirs, overlay, overlayCaptured,
                   formatted, overlayAnswer, adapter>>

\* results[i].getSourceFile(name), tsc-simple.ts:254: no onError is passed
ResultGetSourceFile(i, name) ==
    /\ results[i].error = ""
    /\ Looked(GetSourceFile(results[i].sourceTexts, permanentSourceFiles, nextId, name, FALSE))

\* createSimpleSys(sys, sources, onWrite?)
CreateSimpleSys(sources, hasSink) ==
    /\ overlay.state = "none"
    /\ compiler.state = "none"
    /\ overlay' = CreateSimpleSysResult(sources, hasSink)
    /\ thrown' = overlay'.error
    /\ UNCHANGED <<compiler, permanentSourceFiles, nextId, results, sysWrites, sysMkdirs,
                   overlayCaptured, formatted, overlayAnswer, adapter>>

\* what a call of the overlay's writeFile leaves behind
Written(io) ==
    /\ overlayCaptured' = overlayCaptured \o io.captured
    /\ sysWrites' = sysWrites \o io.sysWrites
    /\ sysMkdirs' = sysMkdirs \o io.sysMkdirs
    /\ thrown' = ""
    /\ UNCHANGED <<compiler, permanentSourceFiles, nextId, results, overlay, formatted,
                   overlayAnswer, adapter>>

\* A run drives the overlay either directly or through a host built over it:
\* the direct calls below come before createCompilerHost.

\* overlay.writeFile(path, data)
OverlayWriteFile(path, data) ==
    /\ overlay.state = "ready"
    /\ adapter.state = "none"
    /\ Len(overlayCaptured) < MaxOverlayWrites
    /\ Written(SimpleSysWriteFile(overlay.hasSink, NoIo, path, data))

\* what a readFile or fileExists call on the overlay leaves behind
Answered(answer, message) ==
    /\ overlayAnswer' = answer
    /\ thrown' = message
    /\ UNCHANGED <<compiler, permanentSourceFiles, nextId, results, sysWrites, sysMkdirs,
                   overlay, overlayCaptured, formatted, adapter>>

\* overlay.readFile(path)
OverlayReadFile(path) ==
    /\ overlay.state = "ready"
    /\ adapter.state = "none"
    /\ Answered([op |-> "readFile", path |-> path,
                 from |-> SimpleSysReadFile(overlay.sources, path).from,
                 kind |-> SimpleSysReadFile(overlay.sources, path).kind,
                 text |-> SimpleSysReadFile(overlay.sources, path).text,
                 message |-> SimpleSysReadFile(overlay.sources, path).message,
                 exists |-> FALSE],
                SimpleSysReadFile(overlay.sources, path).message)

\* overlay.fileExists(path)
OverlayFileExists(path) ==
    /\ overlay.state = "ready"
    /\ adapter.state = "none"
    /\ Answered([op |-> "fileExists", path |-> path,
                 from |-> SimpleSysFileExists(overlay.sources, path).from,
                 kind |-> "", text |-> "", message |-> "",
                 exists |-> SimpleSysFileExists(overlay.sources, path).exists],
                "")

\* what a call on the adapter leaves behind
AdapterCalled(a) ==
    /\ adapter' = a
    /\ overlayCaptured' = overlayCaptured \o a.delivered
    /\ thrown' = a.threw
    /\ UNCHANGED <<compiler, permanentSourceFiles, nextId, results, sysWrites, sysMkdirs,
                   overlay, formatted, overlayAnswer>>

\* createCompilerHost(overlay, options)
CreateCompilerHost(watch) ==
    /\ overlay.state = "ready"
    /\ adapter.state = "none"
    /\ overlayAnswer = NoAnswer
    /\ overlayCaptured = <<>>
    /\ AdapterCalled(CreateCompilerHostResult(watch))

\* host.writeFile(fileName, data, writeByteOrderMark, onError?)
AdapterWriteFileCall(fileName, data, writeByteOrderMark, hasOnError) ==
    /\ overlay.state = "ready"
    /\ adapter.state = "ready"
    /\ Len(overlayCaptured) < MaxOverlayWrites
    /\ AdapterCalled(AdapterWriteFile(overlay, adapter, fileName, data, writeByteOrderMark,
                                      hasOnError))

\* host.getSourceFile(fileName, version, onError?)
AdapterGetSourceFileCall(fileName, hasOnError) ==
    /\ overlay.state = "ready"
    /\ adapter.state = "ready"
    /\ AdapterCalled(AdapterGetSourceFile(overlay, adapter, fileName, hasOnError))

\* results[i].formatDiagnostic(d)
FormatDiagnosticCall(i, d) ==
    /\ results[i].error = ""
    /\ formatted' = [result |-> i, text |-> ResultFormatDiagnostic(results[i], d), d |-> d]
    /\ thrown' = ""
    /\ UNCHANGED <<compiler, permanentSourceFiles, nextId, results, sysWrites, sysMkdirs,
                   overlay, overlayCaptured, overlayAnswer, adapter>>

\* the diagnostics a caller formats: those of any result so far, as reported
\* or with the offset made negative
Formattable ==
    UNION {UNION {{results[j].diagnostics[k],
                   [results[j].diagnostics[k] EXCEPT !.start = -1]} :
                      k \in 1..Len(results[j].diagnostics)} :
              j \in 1..Len(results)}

Next ==
    \/ \E args \in CompilerArgs : CreateCompiler(args)
    \/ \E source \in CompileSources, onWrite \in OnWriteKinds : Compile(source, onWrite)
    \/ \E source \in ParseSources : Parse(source)
    \/ \E sources \in SourceMaps, onWrite \in {"none", "collect"} :
          CompileMap(sources, onWrite)
    \/ \E i \in 1..Len(results), name \in LookupNames : ResultGetSourceFile(i, name)
    \/ \E sources \in SourceMaps, hasSink \in BOOLEAN : CreateSimpleSys(sources, hasSink)
    \/ \E path \in OverlayPaths, data \in {TextOk} : OverlayWriteFile(path, data)
    \/ \E path \in OverlayReadPaths : OverlayReadFile(path)
    \/ \E path \in OverlayReadPaths : OverlayFileExists(path)
    \/ \E watch \in BOOLEAN : CreateCompilerHost(watch)
    \/ \E fileName \in AdapterWritePaths, data \in AdapterWriteData,
          writeByteOrderMark \in BOOLEAN, hasOnError \in BOOLEAN :
          AdapterWriteFileCall(fileName, data, writeByteOrderMark, hasOnError)
    \/ \E fileName \in AdapterReadPaths, hasOnError \in BOOLEAN :
          AdapterGetSourceFileCall(fileName, hasOnError)

Spec == Init /\ [][Next]_vars

\* the calls whose results are formatted: a single-string compile and parse
\* with diagnostics, and a compileMap whose map uses the synthetic name itself
FormatArgs ==
    {NoArgs,
     [NoArgs EXCEPT !.tsconfig =
         WithTypeRoots(TsConfig(TRUE, <<"lib.es5.d.ts">>, TRUE, TRUE, <<>>), <<>>)]}

FormatMaps == {<<Source(SourceName, TextUndefinedName)>>}

NextFormat ==
    \/ \E args \in FormatArgs : CreateCompiler(args)
    \/ Compile(TextUndefinedName, "none")
    \/ Parse(TextSyntaxError)
    \/ \E sources \in FormatMaps : CompileMap(sources, "none")
    \/ \E i \in 1..Len(results), d \in Formattable : FormatDiagnosticCall(i, d)

SpecFormat == Init /\ [][NextFormat]_vars

(* ------------------------------ claims -------------------------------- *)

\* C1: no compile, parse or compileMap call, and no write through the
\* overlay, reaches the real system's writeFile or createDirectory; every
\* file the engine emits goes to the call's sink when one was given, in
\* order, and nowhere when none was given.
C1_WritesOnlyToSink ==
    /\ sysWrites = <<>>
    /\ sysMkdirs = <<>>
    /\ \A i \in 1..Len(results) :
          results[i].captured = IF results[i].hasSink THEN results[i].emitted ELSE <<>>
    /\ (~overlay.hasSink => overlayCaptured = <<>>)

\* a compile with a sink under declaration emit captured two files
C1_Witness ==
    \E i \in 1..Len(results) :
        /\ results[i].hasSink
        /\ results[i].captured =
              <<[name |-> "$.js", text |-> "var x = 3 + 2;\n"],
                [name |-> "$.d.ts", text |-> "declare let x: number;\n"]>>

\* C2: getSourceFileNames() of every result is exactly the call's in-memory
\* names together with the explicit file names of the configuration.
C2_SourceFileNamesExact ==
    \A i \in 1..Len(results) :
        results[i].error = "" =>
        Range(GetSourceFileNames(results[i].sourceTexts, permanentSourceFiles))
            = Range(MapKeys(results[i].sourceTexts)) \cup Range(compiler.fileNames)

\* a diagnostic without the identity of its file's tree
DiagContent(d) == [d EXCEPT !.file.id = 0]

DiagContents(ds) == [k \in 1..Len(ds) |-> DiagContent(ds[k])]

\* C3: two compile calls with the same source on one compiler give equal
\* diagnostics (by content) and, with a sink both times, equal captured pairs.
C3_CompileIdempotent ==
    \A i, j \in 1..Len(results) :
        (/\ results[i].kind = "compile"
         /\ results[j].kind = "compile"
         /\ results[i].error = ""
         /\ results[j].error = ""
         /\ results[i].sources = results[j].sources)
        => /\ DiagContents(results[i].diagnostics) = DiagContents(results[j].diagnostics)
           /\ (results[i].hasSink /\ results[j].hasSink
               => results[i].captured = results[j].captured)

\* what results[i].getSourceFile(name) gives when called now: the tree's
\* name and text, or the error thrown
LookupView(i, name) ==
    [fileName |-> GetSourceFile(results[i].sourceTexts, permanentSourceFiles, nextId,
                                name, FALSE).sf.fileName,
     text |-> GetSourceFile(results[i].sourceTexts, permanentSourceFiles, nextId,
                            name, FALSE).sf.text,
     threw |-> GetSourceFile(results[i].sourceTexts, permanentSourceFiles, nextId,
                             name, FALSE).threw]

\* what results[i] reports through its diagnostics and accessors when asked now
ResultView(i) ==
    [diagnostics |-> results[i].diagnostics,
     names |-> GetSourceFileNames(results[i].sourceTexts, permanentSourceFiles),
     lookups |-> [name \in LookupNames |-> LookupView(i, name)]]

\* C4: what a result reports does not change when further calls or accessor
\* calls are made on the same compiler.
C4_ResultsUnaffectedByLaterCalls ==
    [][\A i \in 1..Len(results) :
          results[i].error = "" => ResultView(i)' = ResultView(i)]_vars

\* C5: a parse call never emits, never calls a sink, never queries global,
\* semantic or declaration diagnostics, and reports only option and
\* syntactic diagnostics.
C5_ParseOnlyOptionAndSyntactic ==
    \A i \in 1..Len(results) :
        results[i].kind = "parse" =>
            /\ Range(results[i].engine) \cap
                  {"emit", "getGlobalDiagnostics", "getSemanticDiagnostics",
                   "getDeclarationDiagnostics"} = {}
            /\ results[i].emitted = <<>>
            /\ results[i].captured = <<>>
            /\ \A k \in 1..Len(results[i].diagnostics) :
                  results[i].diagnostics[k].diagnosticType \in {"option", "syntactic"}

\* a parse of a text with an undefined name, where the library is present,
\* returned no diagnostics at all
C5_Witness ==
    \E i \in 1..Len(results) :
        /\ results[i].kind = "parse"
        /\ results[i].sources[1].value = TextUndefinedName
        /\ results[i].diagnostics = <<>>

\* C6: a call whose source map has a name containing '/' fails before any
\* engine invocation, and so does the construction of an overlay over such
\* a map.
C6_SlashNameFailsBeforeEngine ==
    /\ \A i \in 1..Len(results) :
          Len(SlashNames(results[i].sources)) > 0
              => results[i].error # "" /\ results[i].engine = <<>>
    /\ (overlay.state # "none" /\ Len(SlashNames(overlay.sources)) > 0
            => overlay.state = "threw")

\* the importing file is one of the call's in-memory sources: its path is
\* the path the engine gives an in-memory name
ImporterInMemory(r, containingFile) ==
    \E k \in 1..Len(r.sourceTexts) : AbsPath(r.sourceTexts[k].key, Cwd) = containingFile

\* C7: an import from an in-memory file resolves to the in-memory 's.ts',
\* else to the in-memory 's.d.ts', else by standard resolution; an import
\* from any other file resolves by standard resolution alone.
C7_InMemoryResolutionFirst ==
    \A i \in 1..Len(results) :
        \A k \in 1..Len(results[i].resolutions) :
            LET res == results[i].resolutions[k]
                r == results[i]
            IN  res.resolvedFileName =
                    IF ImporterInMemory(r, res.containingFile)
                          /\ MapHas(r.sourceTexts, res.moduleName \o ".ts")
                    THEN res.moduleName \o ".ts"
                    ELSE IF ImporterInMemory(r, res.containingFile)
                          /\ MapHas(r.sourceTexts, res.moduleName \o ".d.ts")
                    THEN res.moduleName \o ".d.ts"
                    ELSE res.standard

\* in one call B.ts resolved 'A' to the in-memory A.ts although A.d.ts was
\* there too and nothing on disk backs it, and the on-disk M.ts, importing
\* 'A' as well, did not get it
C7_Witness ==
    \E i \in 1..Len(results) :
        /\ MapHas(results[i].sourceTexts, "A.d.ts")
        /\ \E k \in 1..Len(results[i].resolutions) :
              /\ results[i].resolutions[k].containingFile = "/w/B.ts"
              /\ results[i].resolutions[k].resolvedFileName = "A.ts"
              /\ results[i].resolutions[k].standard = ""
        /\ \E k \in 1..Len(results[i].resolutions) :
              /\ results[i].resolutions[k].containingFile = "/w/M.ts"
              /\ results[i].resolutions[k].moduleName = "A"
              /\ results[i].resolutions[k].resolvedFileName = ""

\* the file name the claim gives for d in results[i]: the token '<source>'
\* exactly for the synthetic file of a single-string result
ClaimedFileName(r, d) ==
    IF r.kind \in {"compile", "parse"}
          /\ d.file = MapGet(r.sourceTexts, SourceName).sourceFile
    THEN "<source>"
    ELSE d.file.fileName

\* the location the claim gives for d in results[i]
ClaimedLocation(r, d) ==
    IF d.file = NoFile THEN ""
    ELSE ClaimedFileName(r, d)
         \o (IF d.start >= 0
             THEN "(" \o ToString(LineAndCharacterOfPosition(d.file.text, d.start).line + 1)
                  \o ","
                  \o ToString(LineAndCharacterOfPosition(d.file.text, d.start).character + 1)
                  \o "): "
             ELSE "")

\* C8: formatDiagnostic(d) is '<location><Category> TS<code>: <message>'; the
\* location is empty without a file, else the file name and, for a
\* non-negative offset only, '(<line+1>,<column+1>): '; the name is
\* '<source>' exactly for the synthetic file of the single-string call the
\* result comes from.
C8_FormatDiagnostic ==
    formatted.result # 0 =>
        formatted.text =
            ClaimedLocation(results[formatted.result], formatted.d)
            \o DiagnosticCategory(formatted.d.category)
            \o " TS" \o ToString(formatted.d.code) \o ": "
            \o FlattenDiagnosticMessageText(formatted.d.messageText, NewLine)

\* the second of two results printed its own diagnostic under '<source>',
\* as the README shows it
C8_Witness ==
    /\ formatted.result = 2
    /\ results[1].kind = "compile"
    /\ formatted.d \in Range(results[2].diagnostics)
    /\ formatted.text = "<source>(1,9): Error TS2304: Cannot find name 'z'."

\* the diagnostics the configuration parser reports for the arguments
\* createCompiler was called with
ConfigErrors ==
    IF compiler.args.tsconfig.present
    THEN ParseConfig(compiler.args.tsconfig,
                     IF compiler.args.basePath # "" THEN compiler.args.basePath
                     ELSE Cwd).errors
    ELSE <<>>

\* C9: when the configuration parser reports diagnostics, createCompiler
\* throws their flattened texts joined by the line terminator, and no
\* compile, parse or compileMap ever happens on that configuration.
C9_BadConfigThrows ==
    (compiler.state # "none" /\ Len(ConfigErrors) > 0)
    => /\ compiler.state = "threw"
       /\ thrown = Join([k \in 1..Len(ConfigErrors) |->
                            FlattenDiagnosticMessageText(ConfigErrors[k].messageText,
                                                         NewLine)],
                        NewLine)
       /\ results = <<>>

\* createCompiler threw the two messages of a configuration with two
\* unknown options, one per line
C9_Witness ==
    /\ compiler.state = "threw"
    /\ thrown = "Unknown compiler option 'bogus'.\nUnknown compiler option 'bogus2'."

\* C10: when the parser's only diagnostic is "no inputs were found",
\* createCompiler does not throw and returns a compiler with an empty
\* explicit file list.
C10_NoInputsSuppressed ==
    (/\ compiler.state # "none"
     /\ Len(ConfigErrors) = 1
     /\ ConfigErrors[1].code = 18003)
    => /\ compiler.state = "ready"
       /\ compiler.fileNames = <<>>
       /\ thrown = ""

\* the trees of the program of result r whose file name is name
ProgramFilesNamed(r, name) ==
    {r.files[k] : k \in {j \in 1..Len(r.files) : r.files[j].fileName = name}}

\* C11: for every in-memory name of a call, the host's getSourceFile,
\* readFile and fileExists answer from the in-memory entry, leaving the
\* permanent cache alone, and the program holds the in-memory tree under
\* that name and no other; the overlay's readFile and fileExists answer from
\* its in-memory sources for each of their names. This holds whatever is on
\* disk or in the permanent cache under the same name.
C11_InMemoryShadowsDisk ==
    /\ \A i \in 1..Len(results) :
          \A k \in 1..Len(results[i].sourceTexts) :
              LET name == results[i].sourceTexts[k].key
                  entry == results[i].sourceTexts[k].value
              IN  /\ GetSourceFile(results[i].sourceTexts, permanentSourceFiles, nextId,
                                   name, TRUE)
                        = HostReturn(entry.sourceFile, permanentSourceFiles, nextId, <<>>, "")
                  /\ ReadFile(results[i].sourceTexts, permanentSourceFiles, name)
                        = [kind |-> "text", text |-> entry.text, message |-> ""]
                  /\ FileExists(results[i].sourceTexts, permanentSourceFiles, name)
                  /\ ProgramFilesNamed(results[i], name) = {entry.sourceFile}
    /\ overlay.state = "ready" =>
          \A k \in 1..Len(overlay.sources) :
              /\ SimpleSysReadFile(overlay.sources, overlay.sources[k].key)
                    = [from |-> "memory", kind |-> "text", message |-> "",
                       text |-> overlay.sources[k].value]
              /\ SimpleSysFileExists(overlay.sources, overlay.sources[k].key)
                    = [from |-> "memory", exists |-> TRUE]
    /\ (overlayAnswer.op = "readFile" /\ MapHas(overlay.sources, overlayAnswer.path)) =>
          /\ overlayAnswer.kind = "text"
          /\ overlayAnswer.text = MapGet(overlay.sources, overlayAnswer.path)

\* a call compiled its in-memory M.ts although the permanent cache already
\* held the on-disk M.ts under that very name, read by an earlier lookup
C11_Witness ==
    \E i \in 1..Len(results) :
          /\ MapHas(results[i].sourceTexts, "M.ts")
          /\ MapHas(permanentSourceFiles, "M.ts")
          /\ MapGet(permanentSourceFiles, "M.ts").text = TextM
          /\ MapGet(permanentSourceFiles, "M.ts").id
                < MapGet(results[i].sourceTexts, "M.ts").sourceFile.id
          /\ \E k \in 1..Len(results[i].emitted) :
                results[i].emitted[k] = [name |-> "M.js", text |-> EmitJs(TextOk)]

\* C12: in a full compile under options without declaration emit, the
\* program's declaration diagnostics are not queried and no diagnostic of
\* type 'declaration' is in the result.
C12_DeclarationOnlyWhenEnabled ==
    \A i \in 1..Len(results) :
        (~results[i].parseOnly /\ ~compiler.options.declaration) =>
            /\ "getDeclarationDiagnostics" \notin Range(results[i].engine)
            /\ \A k \in 1..Len(results[i].diagnostics) :
                  results[i].diagnostics[k].diagnosticType # "declaration"

RECURSIVE ClaimedPerFile(_, _, _)
\* per file, in the engine's order: syntactic, then for a full compile
\* semantic and declaration, each under the tag of its collection call
ClaimedPerFile(program, parseOnly, files) ==
    IF Len(files) = 0 THEN <<>>
    ELSE Tagged(GetSyntacticDiagnostics(program, Head(files)), "syntactic")
         \o (IF parseOnly THEN <<>>
             ELSE Tagged(GetSemanticDiagnostics(program, Head(files)), "semantic")
                  \o Tagged(GetDeclarationDiagnostics(program, Head(files)), "declaration"))
         \o ClaimedPerFile(program, parseOnly, Tail(files))

\* C13: the diagnostics of every result are the option diagnostics, then for
\* a full compile the global ones, then file by file in the engine's order
\* the syntactic and for a full compile the semantic and the declaration
\* ones; each carries the tag of the call that returned it, none is dropped
\* or doubled.
C13_DiagnosticsOrderAndTags ==
    \A i \in 1..Len(results) :
        results[i].error = "" =>
        results[i].diagnostics =
            Tagged(GetOptionsDiagnostics(results[i].program), "option")
            \o (IF results[i].parseOnly THEN <<>>
                ELSE Tagged(GetGlobalDiagnostics(results[i].program), "global"))
            \o ClaimedPerFile(results[i].program, results[i].parseOnly,
                              results[i].program.files)

\* test 'b' with a source that has a declaration diagnostic: an option and a
\* global diagnostic, the declaration diagnostic of the source, and the
\* semantic diagnostic of the type package that comes after it, in this order
C13_Witness ==
    \E i \in 1..Len(results) :
        /\ Len(results[i].diagnostics) = 4
        /\ results[i].diagnostics[1].diagnosticType = "option"
        /\ results[i].diagnostics[1].code = 5012
        /\ results[i].diagnostics[2].diagnosticType = "global"
        /\ results[i].diagnostics[2].code = 2318
        /\ results[i].diagnostics[3].diagnosticType = "declaration"
        /\ results[i].diagnostics[3].code = 4025
        /\ results[i].diagnostics[3].file.fileName = SourceName
        /\ results[i].diagnostics[4].diagnosticType = "semantic"
        /\ results[i].diagnostics[4].code = 2304
        /\ results[i].diagnostics[4].file.text = TextTypes

\* the names the real system cannot read: a missing file and one whose read throws
UnreadableNames == {"gone.d.ts", "locked.d.ts"}

\* C14: asked for an on-disk file that cannot be read, the host's
\* getSourceFile reports through onError when there is one, returns a tree
\* of empty text and does not throw; with or without a callback, and in
\* every state of a compiler, not only before the first request. The same
\* holds of the adapter's getSourceFile over the overlay.
C14_UnreadableFileNeverAborts ==
    /\ \A i \in 1..Len(results) :
          results[i].error = "" =>
              \A name \in UnreadableNames, hasOnError \in BOOLEAN :
                  LET got == GetSourceFile(results[i].sourceTexts, permanentSourceFiles,
                                           nextId, name, hasOnError)
                  IN  /\ got.threw = ""
                      /\ got.sf.fileName = name
                      /\ got.sf.text = ""
                      /\ (hasOnError => Len(got.onError) > 0)
    /\ \A name \in LookupNames : thrown # "error reading file " \o name
    /\ (adapter.op = "getSourceFile" /\ adapter.failed) =>
          /\ adapter.threw = ""
          /\ adapter.text = ""
          /\ (adapter.hasOnError => Len(adapter.onError) > 0)

\* C15: a failure while writing an emitted file never comes out of the
\* host's writeFile: every compile and compileMap call returns, has handed
\* every file the program emits to the host, and has collected its
\* diagnostics; the adapter's writeFile does not throw and reports a failure
\* through onError when there is one.
C15_WriteFailureNeverThrown ==
    /\ \A i \in 1..Len(results) :
          ~results[i].parseOnly =>
              /\ results[i].error = ""
              /\ results[i].emitted = EmitAll(results[i].files, compiler.options)
              /\ "getOptionsDiagnostics" \in Range(results[i].engine)
    /\ adapter.op = "writeFile" =>
          /\ adapter.threw = ""
          /\ (adapter.failed /\ adapter.hasOnError => Len(adapter.onError) > 0)

\* the name the claim's normalization gives a path; "" when it gives no
\* match (in-memory names are never empty)
ClaimedNormalized(path) ==
    IF StartsWith(path, "./") THEN Substring(path, 2)
    ELSE IF StartsWith(path, Cwd \o "/") THEN Substring(path, Len(Cwd) + 1)
    ELSE IF ~StartsWith(path, "/") THEN path
    ELSE ""

\* C16: the overlay's readFile(path) returns the in-memory text and its
\* fileExists(path) returns true exactly when the normalized path is an
\* in-memory name; otherwise both return what the real system returns for
\* the path as given; and the two agree on whether a path is in memory, also
\* for a source of empty text.
C16_OverlayNormalizedLookup ==
    /\ overlayAnswer.op = "readFile" =>
          IF MapHas(overlay.sources, ClaimedNormalized(overlayAnswer.path))
          THEN /\ overlayAnswer.from = "memory"
               /\ overlayAnswer.kind = "text"
               /\ overlayAnswer.text
                     = MapGet(overlay.sources, ClaimedNormalized(overlayAnswer.path))
               /\ overlayAnswer.message = ""
          ELSE /\ overlayAnswer.from = "system"
               /\ overlayAnswer.kind = SysReadFile(overlayAnswer.path).kind
               /\ overlayAnswer.text = SysReadFile(overlayAnswer.path).text
               /\ overlayAnswer.message = SysReadFile(overlayAnswer.path).message
    /\ overlayAnswer.op = "fileExists" =>
          IF MapHas(overlay.sources, ClaimedNormalized(overlayAnswer.path))
          THEN overlayAnswer.from = "memory" /\ overlayAnswer.exists
          ELSE /\ overlayAnswer.from = "system"
               /\ overlayAnswer.exists = SysFileExists(overlayAnswer.path)
    /\ overlay.state = "ready" =>
          \A path \in OverlayReadPaths :
              SimpleSysReadFile(overlay.sources, path).from
                  = SimpleSysFileExists(overlay.sources, path).from

\* the overlay was asked to read './E.ts', an in-memory source of empty
\* text, and returned the empty text from memory
C16_Witness ==
    /\ overlayAnswer.op = "readFile"
    /\ overlayAnswer.path = "./E.ts"
    /\ MapHas(overlay.sources, "E.ts")
    /\ overlayAnswer.from = "memory"
    /\ overlayAnswer.kind = "text"
    /\ overlayAnswer.text = ""

\* C17: the adapter's writeFile over the overlay never calls the system's
\* createDirectory and always hands (name, text) to the overlay's sink, also
\* when the parent directory of name does not exist.
C17_OverlayWriteSkipsDirectories ==
    /\ sysMkdirs = <<>>
    /\ adapter.op = "writeFile" =>
          /\ adapter.created = <<>>
          /\ (overlay.hasSink =>
                adapter.delivered = <<[name |-> adapter.fileName, text |-> adapter.text]>>)

\* the directory the claim takes the default library from
ClaimedLibLocation(args) ==
    IF args.defaultLibLocation # "" THEN args.defaultLibLocation
    ELSE GetDirectoryPath(NormalizePath(ExecutingFilePath))

\* C18: the default library path is the configured default-library
\* directory, or else the directory of the engine's executable, followed by
\* the library's file name, never a path relative to the cwd, and the files
\* of options.lib are looked for in the same directory; every full compile
\* under options that ask for the default library has the library's text in
\* its program.
C18_DefaultLibFromEngineDirectory ==
    compiler.state = "ready" =>
        /\ GetDefaultLibFileName(compiler.args)
              = ClaimedLibLocation(compiler.args) \o "/"
                \o (IF compiler.args.defaultLibFileName # ""
                    THEN compiler.args.defaultLibFileName ELSE "lib.d.ts")
        /\ DefaultLibraryPath(compiler.args) = ClaimedLibLocation(compiler.args)
        /\ \A i \in 1..Len(results) :
              (~compiler.options.noLib /\ ~compiler.options.hasLib) =>
                  \E k \in 1..Len(results[i].files) :
                      /\ results[i].files[k].fileName = GetDefaultLibFileName(compiler.args)
                      /\ results[i].files[k].text = LibText

====
